---- MODULE Spec2Model ----
(***************************************************************************)
(* ai-news-summary: the news pipeline of src/ai_news_summary.py and the    *)
(* Flask surface of src/keep_alive.py.                                     *)
(*                                                                         *)
(* The workflow (lines 178-222) runs when ai_news_summary.py is started as  *)
(* a script: one run per process, on one thread.  The module-level         *)
(* credential decode (lines 28-31) runs first; it needs the name base64,   *)
(* which the module does not import, and the environment variable          *)
(* GOOGLE_CREDENTIALS_BASE64.  When either is missing, line 29 raises and  *)
(* the process ends before any run.                                        *)
(*                                                                         *)
(* keep_alive.py imports the name main from ai_news_summary (line 2).  The *)
(* import executes the module (lines 1-177; the workflow is skipped, the   *)
(* module not being __main__) and then fails: the module defines no main.  *)
(* The process ends there, before the Flask app exists.  The Google sheet  *)
(* is the persisted store; it outlives every process.                      *)
(*                                                                         *)
(* A news item carries title, summary, url, publication_date and rating.   *)
(* title, summary and publication_date are payload that every step copies  *)
(* unchanged; they are fixed to one value each.                            *)
(***************************************************************************)
EXTENDS Integers, Sequences, FiniteSets, TLC

\* ---------------------------------------------------------------- bounds
MaxItems == 2      \* longest report handed to the filter (SpecFilter)
MaxRuns == 3       \* number of runs (starts of the script)

Threads == {1}     \* the thread of the script

\* ------------------------------------------------------------ data model
None == -1                   \* Python None (rating default, missing result)
Missing == "<missing>"       \* a required field the raw output lacks
Urls == {"U1", "U2"}
Ratings == {None, 7, 11}     \* absent, in range, out of range

RawItem(u, k) ==
  [title |-> "T", summary |-> "S", url |-> u,
   publication_date |-> "2024-01-01", rating |-> k]

Items == {RawItem(u, k) : u \in Urls, k \in Ratings}

\* Sequences over S of length at most n.
SeqUpTo(S, n) == UNION {[1..m -> S] : m \in 0..n}

\* NewsItem: title, summary, url, publication_date are required; rating is
\* Optional[int] with default None and no range constraint.
NewsItemValid(it) ==
  /\ it.url # Missing
  /\ it.rating \in Int

\* crew_output.pydantic: the NewsReport parsed from the raw output, or None
\* when the raw output does not conform to the schema.
WrongPydantic(raw) == [usable |-> TRUE, news_items |-> raw]

Pydantic(raw) ==
  IF \A i \in 1..Len(raw) : NewsItemValid(raw[i])
    THEN [usable |-> TRUE, news_items |-> raw]
    ELSE [usable |-> FALSE, news_items |-> <<>>]

NoResult == [usable |-> FALSE, news_items |-> <<>>]

\* `if result and result.news_items`
HasItems(result) == result.usable /\ result.news_items # <<>>

\* worksheet.col_values(n): the values of column n, top to bottom.
ColValues(st, n) == [i \in 1..Len(st) |-> st[i][n]]

Range(s) == {s[i] : i \in 1..Len(s)}

\* get_existing_urls_from_sheet: set(col_values(4)), or set() on any error.
WrongGetExistingUrls(st, ok) == Range(ColValues(st, 4))

GetExistingUrls(st, ok) == IF ok THEN Range(ColValues(st, 4)) ELSE {}

\* [item for item in result.news_items if item.url not in existing_urls]
RECURSIVE WrongNewItems(_, _)
WrongNewItems(items, existing) ==
  IF items = <<>> THEN <<>>
  ELSE IF Head(items).url \notin existing
         THEN <<Head(items)>>
              \o WrongNewItems(Tail(items), existing \cup {Head(items).url})
         ELSE WrongNewItems(Tail(items), existing)

RECURSIVE NewItems(_, _)
NewItems(items, existing) ==
  IF items = <<>> THEN <<>>
  ELSE LET rest == NewItems(Tail(items), existing)
       IN  IF Head(items).url \notin existing
             THEN <<Head(items)>> \o rest
             ELSE rest

\* One sheet row per item: date string, title, summary, url, rating.
SheetRow(item) ==
  <<item.publication_date, item.title, item.summary, item.url, item.rating>>

SheetRows(items) == [i \in 1..Len(items) |-> SheetRow(items[i])]

\* The digest: a header, then one block per item.
SlackBlock(item) ==
  [title |-> item.title, summary |-> item.summary, rating |-> item.rating,
   url |-> item.url, published |-> item.publication_date]

SlackMessage(items) ==
  [header |-> "*AI News Summary*",
   blocks |-> [i \in 1..Len(items) |-> SlackBlock(items[i])]]

NoMessage == [header |-> "", blocks |-> <<>>]

\* ------------------------------------------------------------ crew output
\* What news_crew.kickoff() hands back to a run: a raw output
\* that does not conform to the schema, an empty report, a report of one
\* rated item, a report of one item rated out of range, or a report of two
\* items the second of which has no rating.
CrewOutputs ==
  { <<RawItem(Missing, 7)>>,
    <<>>,
    <<RawItem("U1", 7)>>,
    <<RawItem("U2", 11)>>,
    <<RawItem("U1", 7), RawItem("U2", None)>> }

\* The sheet before the process starts: empty, or one row published earlier.
InitStores == {<<>>, <<SheetRow(RawItem("U1", 7))>>}

\* ------------------------------------------------------------------ state
VARIABLES
  store,          \* the worksheet: sequence of rows
  credFile,       \* temp_google_creds.json exists
  triggers,       \* runs started so far
  pc,             \* per thread: position of its run
  crew_output,    \* per thread: raw output of the crew
  result,         \* per thread: crew_output.pydantic
  existing_urls,  \* per thread: set returned by get_existing_urls_from_sheet
  new_items,      \* per thread: filtered items
  sheet_rows,     \* per thread: rows handed to append_to_google_sheet
  idx,            \* per thread: position of the append loop in sheet_rows
  slack_message,  \* per thread: digest handed to send_to_slack
  outcome,        \* per thread: how the store read, the append and the post ended
  calls,          \* per thread: external calls made by the current run
  written,        \* per thread: rows the current run appended, in order
  proc,           \* phase of the process
  env             \* what the process finds: the name base64, the env variable,
                  \* and the file it was started from

vars == <<store, credFile, triggers, pc, crew_output, result, existing_urls,
          new_items, sheet_rows, idx, slack_message, outcome, calls, written,
          proc, env>>

Envs == [base64 : BOOLEAN, creds : BOOLEAN, entry : {"script", "keep_alive"}]

NoOutcome == [read |-> "none", append |-> "none", post |-> "none"]
NoCalls == [kickoff |-> 0, read |-> 0, open |-> 0, append |-> 0, post |-> 0]

\* The process has been started and is about to execute the module.
Init ==
  /\ store \in InitStores
  /\ env \in Envs
  /\ proc = "starting"
  /\ credFile = FALSE
  /\ triggers = 0
  /\ pc = [r \in Threads |-> "idle"]
  /\ crew_output = [r \in Threads |-> <<>>]
  /\ result = [r \in Threads |-> NoResult]
  /\ existing_urls = [r \in Threads |-> {}]
  /\ new_items = [r \in Threads |-> <<>>]
  /\ sheet_rows = [r \in Threads |-> <<>>]
  /\ idx = [r \in Threads |-> 0]
  /\ slack_message = [r \in Threads |-> NoMessage]
  /\ outcome = [r \in Threads |-> NoOutcome]
  /\ calls = [r \in Threads |-> NoCalls]
  /\ written = [r \in Threads |-> <<>>]

\* An external call made by a run that needs the credential file fails when
\* the file is gone, and may fail for any other reason when it is there.
CredOutcomes == IF credFile THEN BOOLEAN ELSE {FALSE}

RunLocals ==
  <<crew_output, result, existing_urls, new_items, sheet_rows, idx,
    slack_message, outcome, calls, written>>

\* ---------------------------------------------------------------- actions
\* Lines 28-31: decode the credentials and write temp_google_creds.json
\* (mode "w": a file left behind is overwritten).  Line 29 raises NameError
\* when base64 is not bound and TypeError when the variable is unset; the
\* module is then never executed further.
Import ==
  /\ proc = "starting"
  /\ IF env.base64 /\ env.creds
       THEN /\ credFile' = TRUE
            /\ proc' = "loaded"
       ELSE /\ proc' = "dead"
            /\ UNCHANGED credFile
  /\ UNCHANGED <<store, triggers, pc, env>>
  /\ UNCHANGED RunLocals

\* `if __name__ == "__main__":` the script goes on into the workflow.
RunScript ==
  /\ env.entry = "script"
  /\ proc = "loaded"
  /\ pc[1] = "idle"
  /\ proc' = "running"
  /\ triggers' = triggers + 1
  /\ pc' = [pc EXCEPT ![1] = "START"]
  /\ UNCHANGED <<store, credFile, env>>
  /\ UNCHANGED RunLocals

\* keep_alive.py line 2, `from ai_news_summary import main`, after the module
\* was executed: the module has no attribute main, the import raises
\* ImportError and the process ends.  Lines 4-16 (app, run, app.run) are
\* never executed; the credential file written by the module stays.
ImportMain ==
  /\ env.entry = "keep_alive"
  /\ proc = "loaded"
  /\ proc' = "dead"
  /\ UNCHANGED <<store, credFile, triggers, pc, env>>
  /\ UNCHANGED RunLocals

\* crew_output = news_crew.kickoff(); result = crew_output.pydantic
\* The call is in no try block: when it raises, the exception leaves the
\* workflow at line 179 and none of lines 180-222 is executed.
Kickoff(r) ==
  /\ pc[r] = "START"
  /\ calls' = [calls EXCEPT ![r].kickoff = @ + 1]
  /\ \/ \E raw \in CrewOutputs :
          /\ crew_output' = [crew_output EXCEPT ![r] = raw]
          /\ result' = [result EXCEPT ![r] = Pydantic(raw)]
          /\ pc' = [pc EXCEPT ![r] = "RATED"]
     \/ /\ pc' = [pc EXCEPT ![r] = "ABORTED"]
        /\ UNCHANGED <<crew_output, result>>
  /\ UNCHANGED <<proc, env>>
  /\ UNCHANGED <<store, credFile, triggers, existing_urls, new_items,
                 sheet_rows, idx, slack_message, outcome, written>>

\* if result and result.news_items: ... else: "No news items found"
CheckResult(r) ==
  /\ pc[r] = "RATED"
  /\ pc' = [pc EXCEPT ![r] = IF HasItems(result[r]) THEN "FETCH" ELSE "DONE"]
  /\ UNCHANGED <<proc, env>>
  /\ UNCHANGED <<store, credFile, triggers, crew_output, result,
                 existing_urls, new_items, sheet_rows, idx, slack_message,
                 outcome, calls, written>>

\* get_existing_urls_from_sheet, lines 130-136: load the credentials from
\* the file and authorize.  Any error ends the function in its except
\* clause, which returns set().
LoadCredentials(r) ==
  /\ pc[r] = "FETCH"
  /\ calls' = [calls EXCEPT ![r].read = @ + 1]
  /\ \E ok \in CredOutcomes :
       IF ok
         THEN /\ pc' = [pc EXCEPT ![r] = "COLUMN"]
              /\ UNCHANGED <<existing_urls, outcome>>
         ELSE /\ pc' = [pc EXCEPT ![r] = "FILTER"]
              /\ existing_urls' =
                   [existing_urls EXCEPT ![r] = GetExistingUrls(store, FALSE)]
              /\ outcome' = [outcome EXCEPT ![r].read = "failed"]
  /\ UNCHANGED <<proc, env>>
  /\ UNCHANGED <<store, credFile, triggers, crew_output, result, new_items,
                 sheet_rows, idx, slack_message, written>>

\* get_existing_urls_from_sheet, lines 138-145: open the sheet and read its
\* url column; no look at the credential file any more.
FetchColumn(r) ==
  /\ pc[r] = "COLUMN"
  /\ \E ok \in BOOLEAN :
       /\ existing_urls' =
            [existing_urls EXCEPT ![r] = GetExistingUrls(store, ok)]
       /\ outcome' =
            [outcome EXCEPT ![r].read = IF ok THEN "ok" ELSE "failed"]
  /\ pc' = [pc EXCEPT ![r] = "FILTER"]
  /\ UNCHANGED <<proc, env>>
  /\ UNCHANGED <<store, credFile, triggers, crew_output, result, new_items,
                 sheet_rows, idx, slack_message, calls, written>>

\* new_items = [item for item in result.news_items if ...]
Filter(r) ==
  /\ pc[r] = "FILTER"
  /\ new_items' =
       [new_items EXCEPT ![r] =
          NewItems(result[r].news_items, existing_urls[r])]
  /\ pc' = [pc EXCEPT ![r] = "DEDUPED"]
  /\ UNCHANGED <<proc, env>>
  /\ UNCHANGED <<store, credFile, triggers, crew_output, result,
                 existing_urls, sheet_rows, idx, slack_message, outcome,
                 calls, written>>

\* if not new_items: "No new news items" else: build sheet_rows
WrongIsEmpty(items) == FALSE

IsEmpty(items) == items = <<>>

CheckNew(r) ==
  /\ pc[r] = "DEDUPED"
  /\ IF IsEmpty(new_items[r])
       THEN /\ pc' = [pc EXCEPT ![r] = "DONE"]
            /\ UNCHANGED sheet_rows
       ELSE /\ pc' = [pc EXCEPT ![r] = "OPEN"]
            /\ sheet_rows' = [sheet_rows EXCEPT ![r] = SheetRows(new_items[r])]
  /\ UNCHANGED <<proc, env>>
  /\ UNCHANGED <<store, credFile, triggers, crew_output, result,
                 existing_urls, new_items, idx, slack_message, outcome,
                 calls, written>>

\* append_to_google_sheet, up to the loop: return at once on no rows;
\* otherwise load the credentials and open the worksheet, and on any error
\* report it and return.
OpenSheet(r) ==
  /\ pc[r] = "OPEN"
  /\ IF sheet_rows[r] = <<>>
       THEN /\ pc' = [pc EXCEPT ![r] = "NOTIFY"]
            /\ UNCHANGED <<idx, outcome, calls>>
       ELSE /\ calls' = [calls EXCEPT ![r].open = @ + 1]
            /\ \E ok \in CredOutcomes :
                 IF ok
                   THEN /\ pc' = [pc EXCEPT ![r] = "APPEND"]
                        /\ idx' = [idx EXCEPT ![r] = 1]
                        /\ UNCHANGED outcome
                   ELSE /\ pc' = [pc EXCEPT ![r] = "NOTIFY"]
                        /\ outcome' = [outcome EXCEPT ![r].append = "open failed"]
                        /\ UNCHANGED idx
  /\ UNCHANGED <<proc, env>>
  /\ UNCHANGED <<store, credFile, triggers, crew_output, result,
                 existing_urls, new_items, sheet_rows, slack_message, written>>

\* Where the append loop stands after the call for row i of n returned (ok)
\* or raised (not ok): an exception leaves the loop for the except clause.
WrongAfterAppend(ok, i, n) ==
  [pc |-> IF i = n THEN "NOTIFY" ELSE "APPEND", idx |-> i + 1]

AfterAppend(ok, i, n) ==
  IF ok
    THEN [pc |-> IF i = n THEN "NOTIFY" ELSE "APPEND", idx |-> i + 1]
    ELSE [pc |-> "NOTIFY", idx |-> i]

\* worksheet.append_row(row): the row goes to the end of the sheet.
AppendRowTo(st, row) == Append(st, row)

\* One iteration of `for row in data_rows: worksheet.append_row(row)`.
AppendRow(r) ==
  /\ pc[r] = "APPEND"
  /\ idx[r] \in 1..Len(sheet_rows[r])
  /\ \E ok \in BOOLEAN :
       LET row == sheet_rows[r][idx[r]]
           nxt == AfterAppend(ok, idx[r], Len(sheet_rows[r]))
       IN  /\ pc' = [pc EXCEPT ![r] = nxt.pc]
           /\ idx' = [idx EXCEPT ![r] = nxt.idx]
           /\ IF ok
                THEN /\ store' = AppendRowTo(store, row)
                     /\ written' = [written EXCEPT ![r] = Append(@, row)]
                     /\ outcome' =
                          [outcome EXCEPT ![r].append =
                             IF nxt.pc = "NOTIFY" THEN "ok" ELSE @]
                ELSE /\ outcome' = [outcome EXCEPT ![r].append = "row failed"]
                     /\ UNCHANGED <<store, written>>
  /\ calls' = [calls EXCEPT ![r].append = @ + 1]
  /\ UNCHANGED <<proc, env>>
  /\ UNCHANGED <<credFile, triggers, crew_output, result, existing_urls,
                 new_items, sheet_rows, slack_message>>

\* Where the run stands after send_to_slack returned True or False: both
\* outcomes are only printed.
AfterPost(ok) == "DONE"

\* Build the digest from new_items and post it once.
SendToSlack(r) ==
  /\ pc[r] = "NOTIFY"
  /\ slack_message' = [slack_message EXCEPT ![r] = SlackMessage(new_items[r])]
  /\ calls' = [calls EXCEPT ![r].post = @ + 1]
  /\ \E ok \in BOOLEAN :
       /\ outcome' = [outcome EXCEPT ![r].post = IF ok THEN "ok" ELSE "failed"]
       /\ pc' = [pc EXCEPT ![r] = AfterPost(ok)]
  /\ UNCHANGED <<proc, env>>
  /\ UNCHANGED <<store, credFile, triggers, crew_output, result,
                 existing_urls, new_items, sheet_rows, idx, written>>

\* if os.path.exists("temp_google_creds.json"):
CheckCreds(r) ==
  /\ pc[r] = "DONE"
  /\ pc' = [pc EXCEPT ![r] = IF credFile THEN "REMOVE" ELSE "RETURN"]
  /\ UNCHANGED <<proc, env>>
  /\ UNCHANGED <<store, credFile, triggers, crew_output, result,
                 existing_urls, new_items, sheet_rows, idx, slack_message,
                 outcome, calls, written>>

\* os.remove("temp_google_creds.json"): raises when the file is gone since
\* the existence test of line 221.
RemoveCreds(r) ==
  /\ pc[r] = "REMOVE"
  /\ IF credFile
       THEN /\ credFile' = FALSE
            /\ pc' = [pc EXCEPT ![r] = "RETURN"]
       ELSE /\ pc' = [pc EXCEPT ![r] = "CRASHED"]
            /\ UNCHANGED credFile
  /\ UNCHANGED <<proc, env>>
  /\ UNCHANGED <<store, triggers, crew_output, result, existing_urls,
                 new_items, sheet_rows, idx, slack_message, outcome, calls,
                 written>>

Ended == {"RETURN", "CRASHED", "ABORTED"}

ResetLocals(r) ==
  /\ crew_output' = [crew_output EXCEPT ![r] = <<>>]
  /\ result' = [result EXCEPT ![r] = NoResult]
  /\ existing_urls' = [existing_urls EXCEPT ![r] = {}]
  /\ new_items' = [new_items EXCEPT ![r] = <<>>]
  /\ sheet_rows' = [sheet_rows EXCEPT ![r] = <<>>]
  /\ idx' = [idx EXCEPT ![r] = 0]
  /\ slack_message' = [slack_message EXCEPT ![r] = NoMessage]
  /\ outcome' = [outcome EXCEPT ![r] = NoOutcome]
  /\ calls' = [calls EXCEPT ![r] = NoCalls]
  /\ written' = [written EXCEPT ![r] = <<>>]

\* The script is over, after line 222 or with a traceback: the process ends.
Exit ==
  /\ proc = "running"
  /\ pc[1] \in Ended
  /\ proc' = "exited"
  /\ pc' = [pc EXCEPT ![1] = "idle"]
  /\ ResetLocals(1)
  /\ UNCHANGED <<store, credFile, triggers, env>>

\* Where a new start of the script begins: at the top of the module, so
\* lines 28-31 decode the credentials again before the workflow.
WrongRestartPhase == "loaded"

RestartPhase == "starting"

\* The script is started again (the pipeline is run on a schedule).
Restart ==
  /\ proc = "exited"
  /\ triggers < MaxRuns
  /\ proc' = RestartPhase
  /\ UNCHANGED <<store, credFile, triggers, pc, env>>
  /\ UNCHANGED RunLocals

\* The steps of the workflow, lines 179-222.
Step(r) ==
  \/ Kickoff(r)
  \/ CheckResult(r)
  \/ LoadCredentials(r)
  \/ FetchColumn(r)
  \/ Filter(r)
  \/ CheckNew(r)
  \/ OpenSheet(r)
  \/ AppendRow(r)
  \/ SendToSlack(r)
  \/ CheckCreds(r)
  \/ RemoveCreds(r)

\* python ai_news_summary.py, started again and again, or python
\* keep_alive.py.
Next == Import \/ RunScript \/ ImportMain \/ Step(1) \/ Exit \/ Restart

Spec == Init /\ [][Next]_vars

\* ---------------------------------------------------- the filter on its own
\* A run that has its rated report in hand and is about to read the sheet:
\* any report of at most MaxItems items, any sheet of at most MaxSheet rows.
MaxSheet == 2

SheetUrls == Urls \cup {"U0"}

Sheets == SeqUpTo({SheetRow(RawItem(u, 7)) : u \in SheetUrls}, MaxSheet)

InitFilter ==
  /\ store \in Sheets
  /\ env = [base64 |-> TRUE, creds |-> TRUE, entry |-> "script"]
  /\ proc = "running"
  /\ credFile = TRUE
  /\ triggers = 1
  /\ pc = [r \in Threads |-> IF r = 1 THEN "FETCH" ELSE "idle"]
  /\ \E raw \in SeqUpTo(Items, MaxItems) \ {<<>>} :
       /\ crew_output = [r \in Threads |-> IF r = 1 THEN raw ELSE <<>>]
       /\ result = [r \in Threads |-> IF r = 1 THEN Pydantic(raw) ELSE NoResult]
  /\ existing_urls = [r \in Threads |-> {}]
  /\ new_items = [r \in Threads |-> <<>>]
  /\ sheet_rows = [r \in Threads |-> <<>>]
  /\ idx = [r \in Threads |-> 0]
  /\ slack_message = [r \in Threads |-> NoMessage]
  /\ outcome = [r \in Threads |-> NoOutcome]
  /\ calls = [r \in Threads |->
                IF r = 1 THEN [NoCalls EXCEPT !.kickoff = 1] ELSE NoCalls]
  /\ written = [r \in Threads |-> <<>>]

NextFilter == LoadCredentials(1) \/ FetchColumn(1) \/ Filter(1)

SpecFilter == InitFilter /\ [][NextFilter]_vars

\* ================================================================ claims
Finished == {"DONE", "REMOVE", "RETURN", "CRASHED"}

StoreUrls == Range(ColValues(store, 4))

\* The positions of `items` whose url is not in `existing`.
KeptPositions(items, existing) ==
  {i \in 1..Len(items) : items[i].url \notin existing}

\* The k-th smallest member of a set of positions.
KthPosition(P, k) == CHOOSE i \in P : Cardinality({j \in P : j <= i}) = k

\* s occurs in t as a subsequence (same order, gaps allowed).
RECURSIVE IsSubsequence(_, _)
IsSubsequence(s, t) ==
  IF s = <<>> THEN TRUE
  ELSE IF t = <<>> THEN FALSE
  ELSE IF Head(s) = Head(t) THEN IsSubsequence(Tail(s), Tail(t))
  ELSE IsSubsequence(s, Tail(t))

\* C1: once a run has filtered, new_items holds exactly the candidates whose
\* url is not among the existing urls: as many as there are such positions,
\* and the k-th accepted item is the candidate at the k-th such position.
FilterIsOrderedSetDifference ==
  \A r \in Threads :
    pc[r] = "DEDUPED" =>
      LET C == result[r].news_items
          P == KeptPositions(C, existing_urls[r])
      IN  /\ Len(new_items[r]) = Cardinality(P)
          /\ \A k \in 1..Len(new_items[r]) :
               new_items[r][k] = C[KthPosition(P, k)]

\* C1 witness: a filtered report of two items with the same url and
\* different ratings, both kept, while the sheet held another url.
FilterKeptBothOfOneUrl ==
  /\ pc[1] = "DEDUPED"
  /\ outcome[1].read = "ok"
  /\ existing_urls[1] # {}
  /\ Len(new_items[1]) = 2
  /\ new_items[1][1].url = new_items[1][2].url
  /\ new_items[1][1] # new_items[1][2]

\* C2: no two rows of the sheet share a url.
NoTwoRowsShareUrl ==
  \A i, j \in 1..Len(store) : i # j => store[i][4] # store[j][4]

NoRetry ==
  \A r \in Threads :
    /\ calls[r].kickoff <= 1
    /\ calls[r].read <= 1
    /\ calls[r].open <= 1
    /\ calls[r].post <= 1
    /\ calls[r].append <= Len(sheet_rows[r])
    /\ calls[r].append =
         Len(written[r]) + (IF outcome[r].append = "row failed" THEN 1 ELSE 0)

\* C4: no failure of a step ends a run before DONE: a run is never left by
\* an exception on its way to the end of the pipeline, and no step is
\* attempted twice.
EveryRunReachesDone ==
  /\ NoRetry
  /\ \A r \in Threads : pc[r] # "ABORTED"

\* The raw output of the crew is no usable report, or a report of no items.
NoUsableItems(raw) ==
  \/ raw = <<>>
  \/ \E i \in 1..Len(raw) : ~NewsItemValid(raw[i])

\* C5: a run whose kickoff returned an unusable or empty output goes
\* straight to its end: it never reads the sheet, opens it, appends to it or posts.
UnusableRunTouchesNothing ==
  \A r \in Threads :
    (pc[r] \notin {"idle", "START", "ABORTED"}
       /\ NoUsableItems(crew_output[r])) =>
      /\ pc[r] \in {"RATED"} \cup Finished
      /\ calls[r].read = 0
      /\ calls[r].open = 0
      /\ calls[r].append = 0
      /\ calls[r].post = 0
      /\ written[r] = <<>>

\* C5 witness: a run with a non-conformant crew output is DONE.
UnusableRunDone ==
  \E r \in Threads :
    /\ pc[r] = "DONE"
    /\ calls[r].kickoff = 1
    /\ crew_output[r] # <<>>
    /\ NoUsableItems(crew_output[r])

\* C6: when the read of the existing urls failed, the existing set is empty
\* and every item of the report is accepted: it is in new_items, gets a
\* sheet row and is in the digest.
ReadFailureAcceptsAll ==
  \A r \in Threads :
    outcome[r].read = "failed" =>
      /\ existing_urls[r] = {}
      /\ pc[r] \notin {"FILTER"} => new_items[r] = result[r].news_items
      /\ pc[r] \notin {"FILTER", "DEDUPED"} =>
           sheet_rows[r] = SheetRows(result[r].news_items)
      /\ calls[r].post = 1 =>
           slack_message[r] = SlackMessage(result[r].news_items)

\* C6 witness: the only run so far failed to read the sheet, and hands the
\* Store Writer an item whose url the sheet already holds.
ReadFailureAcceptedKnownUrl ==
  \E r \in Threads :
    /\ triggers = 1
    /\ pc[r] = "OPEN"
    /\ outcome[r].read = "failed"
    /\ \E i \in 1..Len(sheet_rows[r]) : sheet_rows[r][i][4] \in StoreUrls

\* C7: the rows a run has appended are a prefix of its input, in order, and
\* they are in the sheet; when the append of row k failed, exactly the first
\* k-1 rows were appended, the loop is over, and no append call was repeated.
WriterLeavesPrefix ==
  \A r \in Threads :
    /\ Len(written[r]) <= Len(sheet_rows[r])
    /\ written[r] = SubSeq(sheet_rows[r], 1, Len(written[r]))
    /\ IsSubsequence(written[r], store)
    /\ calls[r].append <= Len(sheet_rows[r])
    /\ outcome[r].append = "row failed" =>
         /\ pc[r] # "APPEND"
         /\ calls[r].append = Len(written[r]) + 1
         /\ idx[r] = Len(written[r]) + 1

\* C7 witness: the append of the second of two rows failed and the first row
\* stands.
SecondRowFailed ==
  \E r \in Threads :
    /\ pc[r] = "NOTIFY"
    /\ outcome[r].append = "row failed"
    /\ Len(sheet_rows[r]) = 2
    /\ written[r] = <<sheet_rows[r][1]>>
    /\ idx[r] = 2

\* C8: a run whose filter accepted nothing makes no call to the sheet for
\* appending and no post.
EmptyAcceptedMakesNoCalls ==
  \A r \in Threads :
    (calls[r].read = 1 /\ pc[r] \notin {"COLUMN", "FILTER", "DEDUPED"}
       /\ new_items[r] = <<>>) =>
      /\ pc[r] \in Finished
      /\ calls[r].open = 0
      /\ calls[r].append = 0
      /\ calls[r].post = 0
      /\ written[r] = <<>>

\* C8 witness: a run read the sheet, found every item of its report in it,
\* and is DONE.
AllItemsKnownRunDone ==
  \E r \in Threads :
    /\ pc[r] = "DONE"
    /\ outcome[r].read = "ok"
    /\ result[r].news_items # <<>>
    /\ new_items[r] = <<>>

\* C9: every row of the sheet and every block of a posted digest carries a
\* rating in 1..10.
RatingsInRange ==
  /\ \A i \in 1..Len(store) : store[i][5] \in 1..10
  /\ \A r \in Threads :
       outcome[r].post = "ok" =>
         \A i \in 1..Len(slack_message[r].blocks) :
           slack_message[r].blocks[i].rating \in 1..10

====
